---- MODULE Spec2Model ----
(***************************************************************************)
(* Model of the two HyperSync extraction scripts of src/mode_transfers.js: *)
(* the MODE Transfer extractor (lines 1-188) and the Velodrome CL          *)
(* mint/burn extractor (lines 189-412).                                    *)
(*                                                                         *)
(* JavaScript strings are sequences of one-character strings; JavaScript   *)
(* values are tagged records (undefined/null, string, number, array), so   *)
(* that truthiness, strict equality and method lookup behave as in the     *)
(* source.  BigInt values are little-endian sequences of base-10000 limbs. *)
(***************************************************************************)
EXTENDS Integers, Sequences, FiniteSets, TLC

VARIABLES
    script,       \* which of the two scripts runs: "transfers" or "mintburn"
    pc,           \* position: "init", "open", "recv", "logs", "done", "failed"
    pass,         \* 1: the only pass / the mint pass, 2: the burn pass
    query,        \* the query object: its fromBlock cursor and its topic0
    totalEvents,  \* the pass's counter of received logs
    res,          \* the batch being processed
    idx,          \* position of the for loop in res.data.logs (from 1)
    file,         \* the CSV file, a sequence of lines
    exitCode,     \* -1 while the process runs, then its exit status
    srvPos,       \* the stream's own position (the service's side)
    opens,        \* every client.stream call: its topic0 and fromBlock
    recvs,        \* every stream.recv call: outcome, logs, pass, hint
    nThrown,      \* logs whose decoding raised an exception
    nSinkErr,     \* appendFileSync calls that threw
    dlog, dscript, drow   \* the decoder applied to one log on its own

vars == <<script, pc, pass, query, totalEvents, res, idx, file, exitCode,
          srvPos, opens, recvs, nThrown, nSinkErr, dlog, dscript, drow>>

pipeVars == <<script, pc, pass, query, totalEvents, res, idx, file, exitCode,
              srvPos, opens, recvs, nThrown, nSinkErr>>

decVars == <<dlog, dscript, drow>>

-----------------------------------------------------------------------------
(* Bounds of the model. *)

\* Batches the service hands out in one run before it must end or fail.
MaxBatches == 2

\* Logs the service holds for one run, over all its batches.
MaxLogs == 2

-----------------------------------------------------------------------------
(* Program constants. *)

\* fromBlock of the query (both scripts).
StartBlock == 11203124

\* slice(-40): hex characters of an address.
AddrHexLen == 40

\* "Each uint256 is 64 characters long in hex".
WordHexLen == 64

\* cleanData.length >= 128.
MinDualLen == 128

-----------------------------------------------------------------------------
(* JavaScript strings. *)

Rep(c, n) == [k \in 1..n |-> c]

LowerHex == <<"0","1","2","3","4","5","6","7","8","9","a","b","c","d","e","f">>

UpperHex == <<"0","1","2","3","4","5","6","7","8","9","A","B","C","D","E","F">>

IsHexChar(c) == \E k \in 1..16 : LowerHex[k] = c \/ UpperHex[k] = c

HexValue(c) == (CHOOSE k \in 1..16 : LowerHex[k] = c \/ UpperHex[k] = c) - 1

\* String.prototype.slice(-n): the last n characters, the whole string when
\* it is shorter.
SliceLast(s, n) ==
    IF Len(s) <= n THEN s ELSE SubSeq(s, Len(s) - n + 1, Len(s))

\* String.prototype.slice(a, b) for 0 <= a <= b (zero-based, b exclusive).
Slice(s, a, b) ==
    LET e == IF b > Len(s) THEN Len(s) ELSE b
    IN IF a >= e THEN <<>> ELSE SubSeq(s, a + 1, e)

\* String.prototype.startsWith('0x').
StartsWith0x(s) == Len(s) >= 2 /\ s[1] = "0" /\ s[2] = "x"

StrUnknown == <<"u","n","k","n","o","w","n">>

StrZero == <<"0">>

StrMint == <<"m","i","n","t">>

StrBurn == <<"b","u","r","n">>

-----------------------------------------------------------------------------
(* JavaScript values. *)

Undef == [t |-> "undef"]

Str(s) == [t |-> "str", v |-> s]

Num(n) == [t |-> "num", v |-> n]

Arr(a) == [t |-> "arr", v |-> a]

\* ToBoolean: undefined, null, "" and 0 are falsy.
Truthy(x) ==
    CASE x.t = "undef" -> FALSE
      [] x.t = "str" -> x.v # <<>>
      [] x.t = "num" -> x.v # 0
      [] OTHER -> TRUE

\* a || b
JsOr(a, b) == IF Truthy(a) THEN a ELSE b

RECURSIVE DecimalDigits(_)
DecimalDigits(n) ==
    IF n < 10 THEN <<LowerHex[n + 1]>>
    ELSE Append(DecimalDigits(n \div 10), LowerHex[(n % 10) + 1])

\* A value inside a template literal `${v}` (numbers here are non-negative
\* integers).
TemplateString(x) ==
    CASE x.t = "str" -> x.v
      [] x.t = "num" -> DecimalDigits(x.v)
      [] OTHER -> <<"u","n","d","e","f","i","n","e","d">>

-----------------------------------------------------------------------------
(* BigInt: little-endian limbs in base 10000, zero is the empty sequence. *)

\* big * m + carry, for m and carry of at most five digits: the limb products,
\* two rounds that move each limb's excess to the next limb (after them a
\* limb is below 10007, so a carry is 0 or 1), then the carries that are
\* left, and the number without its leading zero limbs.
MulAdd(big, m, carry) ==
    LET n == Len(big) + 2
        Move(l) ==
            SubSeq([i \in 1..n |->
                       (l[i] % 10000)
                       + (IF i = 1 THEN 0 ELSE l[i - 1] \div 10000)], 1, n)
        raw == SubSeq([i \in 1..n |->
                          (IF i <= Len(big) THEN big[i] * m ELSE 0)
                          + (IF i = 1 THEN carry ELSE 0)], 1, n)
        l == Move(Move(raw))
        CarryIn(i) ==
            \E j \in 1..(i - 1) :
                /\ l[j] >= 10000
                /\ \A k \in (j + 1)..(i - 1) : l[k] >= 9999
        sum == SubSeq([i \in 1..n |->
                          (l[i] + (IF CarryIn(i) THEN 1 ELSE 0)) % 10000], 1, n)
        used == {i \in 1..n : sum[i] # 0}
    IN IF used = {} THEN <<>>
       ELSE SubSeq(sum, 1, CHOOSE i \in used : \A j \in used : j <= i)

\* The value of at most four hex digits, as a machine integer.
RECURSIVE ChunkValue(_)
ChunkValue(s) ==
    IF s = <<>> THEN 0
    ELSE 16 * ChunkValue(SubSeq(s, 1, Len(s) - 1)) + HexValue(s[Len(s)])

\* The value of the hex digits s read after the digits whose value is acc:
\* at most four digits at once, more of them half by half; leading zero
\* digits leave the value zero.
RECURSIVE HexFold(_, _)
HexFold(s, acc) ==
    IF Len(s) <= 4 THEN MulAdd(acc, 16 ^ Len(s), ChunkValue(s))
    ELSE LET h == Len(s) \div 2
             left == HexFold(SubSeq(s, 1, h), acc)
             right == SubSeq(s, h + 1, Len(s))
         IN IF left = <<>> THEN HexFold(right, <<>>) ELSE HexFold(right, left)

\* BigInt(`0x${s}`): a SyntaxError when s is empty or holds a character that
\* is no hex digit.
BigIntHex(s) ==
    IF s = <<>> \/ \E k \in 1..Len(s) : ~IsHexChar(s[k])
    THEN [threw |-> TRUE, big |-> <<>>]
    ELSE [threw |-> FALSE, big |-> HexFold(s, <<>>)]

\* BigInt.prototype.toString(): the top limb without leading zeros, every
\* lower limb as four digits.
BigIntToString(big) ==
    IF big = <<>> THEN StrZero
    ELSE LET n == Len(big)
             lower == [k \in 1..(4 * (n - 1)) |->
                         LET limb == big[n - 1 - ((k - 1) \div 4)]
                             r == (k - 1) % 4
                         IN LowerHex[((limb \div (10 ^ (3 - r))) % 10) + 1]]
         IN DecimalDigits(big[n]) \o lower

-----------------------------------------------------------------------------
(* Decoding one log (the body of the per-log try block). *)

\* a === b on tagged values.
StrictEq(a, b) == a.t = b.t /\ (a.t = "undef" \/ a.v = b.v)

\* `0x${v.slice(-40)}`: a TypeError when v has no slice method (undefined,
\* null, a number).
ThrowAddr == [threw |-> TRUE, s |-> <<>>]

TopicSlice(v) ==
    IF v.t = "str"
    THEN [threw |-> FALSE, s |-> <<"0", "x">> \o SliceLast(v.v, AddrHexLen)]
    ELSE ThrowAddr

\* log.topics && Array.isArray(log.topics) && log.topics.length > k
TopicsHas(topics, k) == Truthy(topics) /\ topics.t = "arr" /\ Len(topics.v) > k

\* Mutant: the topics array is consulted before the named slot.
ExtractAddressArrayFirst(slot, topics, k) ==
    IF TopicsHas(topics, k) THEN TopicSlice(topics.v[k + 1])
    ELSE IF Truthy(slot) THEN TopicSlice(slot)
    ELSE [threw |-> FALSE, s |-> StrUnknown]

\* One address field: option 1 (the named slot), then option 2 (topics[k])
\* only while the field still reads "unknown".
ExtractAddress(slot, topics, k) ==
    LET a1 == IF Truthy(slot) THEN TopicSlice(slot)
              ELSE [threw |-> FALSE, s |-> StrUnknown]
    IN IF a1.threw THEN a1
       ELSE IF a1.s = StrUnknown /\ TopicsHas(topics, k)
            THEN TopicSlice(topics.v[k + 1])
            ELSE a1

\* log.data.startsWith('0x') ? log.data.slice(2) : log.data
CleanData(s) == IF StartsWith0x(s) THEN Slice(s, 2, Len(s)) ELSE s

\* Transfer script: the whole payload is one integer; any exception of the
\* inner try gives "0".
DecodeAmount(data) ==
    IF ~Truthy(data) THEN StrZero
    ELSE IF data.t # "str" THEN StrZero
    ELSE LET p == BigIntHex(CleanData(data.v))
         IN IF p.threw THEN StrZero ELSE BigIntToString(p.big)

\* Mutant: the catch does not reset amount0.
KeepAmount0(p0) == <<BigIntToString(p0.big), StrZero>>

\* What the inner catch of the mint/burn script leaves after the second
\* word failed to parse (amount0 had been assigned).
AmountsAfterCatch(p0) == <<StrZero, StrZero>>

\* cleanData.length >= 128
LongEnough(clean) == Len(clean) >= MinDualLen

\* Mint/burn script: <<amount0, amount1>>.
DecodeAmounts(data) ==
    IF ~Truthy(data) THEN <<StrZero, StrZero>>
    ELSE IF data.t # "str" THEN <<StrZero, StrZero>>
    ELSE LET clean == CleanData(data.v)
         IN IF ~LongEnough(clean) THEN <<StrZero, StrZero>>
            ELSE LET p0 == BigIntHex(Slice(clean, 0, WordHexLen))
                     p1 == BigIntHex(Slice(clean, WordHexLen, 2 * WordHexLen))
                 IN IF p0.threw THEN <<StrZero, StrZero>>
                    ELSE IF p1.threw THEN AmountsAfterCatch(p0)
                    ELSE <<BigIntToString(p0.big), BigIntToString(p1.big)>>

\* Mutant: the first block of the batch, whatever its number.
FindBlockAny(blocks, blockNumber) ==
    IF blocks.t # "arr" \/ blocks.v = <<>> THEN Undef ELSE blocks.v[1]

\* res.data.blocks?.find(b => b.number === blockNumber)
FindBlock(blocks, blockNumber) ==
    IF blocks.t # "arr" THEN Undef
    ELSE LET ks == {k \in 1..Len(blocks.v) :
                        StrictEq(blocks.v[k].number, blockNumber)}
         IN IF ks = {} THEN Undef
            ELSE blocks.v[CHOOSE k \in ks : \A j \in ks : k <= j]

\* blockData?.timestamp || ""
Timestamp(blocks, blockNumber) ==
    LET blockData == FindBlock(blocks, blockNumber)
    IN IF blockData.t = "undef" THEN Str(<<>>)
       ELSE JsOr(blockData.timestamp, Str(<<>>))

\* The columns shared by both scripts: block_number, timestamp, tx_hash.
RowPrefix(log, blocks) ==
    LET blockNumber == JsOr(log.blockNumber, Str(<<>>))
    IN << TemplateString(blockNumber),
          TemplateString(Timestamp(blocks, blockNumber)),
          TemplateString(JsOr(log.transactionHash, Str(<<>>))) >>

\* Transfer script, lines 105-152: the csvRow, or the exception that
\* reaches the per-log catch.
TransferRow(log, blocks) ==
    LET fromA == ExtractAddress(log.topic1, log.topics, 1)
        toA   == ExtractAddress(log.topic2, log.topics, 2)
    IN IF fromA.threw \/ toA.threw THEN [threw |-> TRUE, row |-> <<>>]
       ELSE [threw |-> FALSE,
             row |-> RowPrefix(log, blocks)
                       \o <<fromA.s, toA.s, DecodeAmount(log.data)>>]

\* Mint/burn script, lines 300-355.
MintBurnRow(log, blocks, eventType) ==
    LET sender == ExtractAddress(log.topic1, log.topics, 1)
        toA    == ExtractAddress(log.topic2, log.topics, 2)
        amts   == DecodeAmounts(log.data)
    IN IF sender.threw \/ toA.threw THEN [threw |-> TRUE, row |-> <<>>]
       ELSE [threw |-> FALSE,
             row |-> RowPrefix(log, blocks)
                       \o <<sender.s, toA.s, amts[1], amts[2], eventType>>]

CsvRow(scr, log, blocks, eventType) ==
    IF scr = "transfers" THEN TransferRow(log, blocks)
    ELSE MintBurnRow(log, blocks, eventType)

-----------------------------------------------------------------------------
(* The collaborators: topic hashes, the service's batches, the file. *)

\* keccak256(toHex(signature)), abbreviated to its leading hex characters.
TRANSFER_TOPIC0 == <<"0","x","d","d","f","2">>

MINT_TOPIC0 == <<"0","x","7","a","5","3">>

BURN_TOPIC0 == <<"0","x","0","c","3","9">>

Pad64(s) == Rep("0", WordHexLen - Len(s)) \o s

\* A 32-byte topic holding an address in its low 20 bytes.
AddrA == Rep("a", 38) \o <<"0", "1">>

AddrB == Rep("b", 38) \o <<"0", "2">>

TopicA == <<"0", "x">> \o Pad64(AddrA)

TopicB == <<"0", "x">> \o Pad64(AddrB)

Word50 == Pad64(<<"3", "2">>)

Word75 == Pad64(<<"4", "b">>)

TxHash == <<"0", "x", "7", "7">>

\* A log that decodes: topic1 in its named slot, topic2 only in the array;
\* one data word in a Transfer log, two in a Mint or Burn log.
GoodLog(topic0) ==
    [blockNumber |-> Num(StartBlock), transactionHash |-> Str(TxHash),
     topic0 |-> Str(topic0), topic1 |-> Str(TopicA), topic2 |-> Undef,
     topics |-> Arr(<<Str(topic0), Str(TopicA), Str(TopicB)>>),
     data |-> IF topic0 = TRANSFER_TOPIC0 THEN Str(<<"0", "x">> \o Word50)
              ELSE Str(<<"0", "x">> \o Word50 \o Word75)]

\* A log whose topics array has a hole at index 1: topics[1].slice throws.
HoleLog(topic0) ==
    [blockNumber |-> Num(StartBlock), transactionHash |-> Str(TxHash),
     topic0 |-> Str(topic0), topic1 |-> Undef, topic2 |-> Undef,
     topics |-> Arr(<<Str(topic0), Undef, Str(TopicB)>>),
     data |-> Undef]

\* The logs of the chain, of every event kind.
ChainLogs ==
    {GoodLog(h) : h \in {TRANSFER_TOPIC0, MINT_TOPIC0, BURN_TOPIC0}}
    \cup {HoleLog(h) : h \in {TRANSFER_TOPIC0, MINT_TOPIC0, BURN_TOPIC0}}

\* The logs the service returns for a query: those whose topic0 the query
\* accepts (the filter is the service's).
ServiceLogs(q) == {l \in ChainLogs : l.topic0 = Str(q.topic0)}

RECURSIVE SeqsUpTo(_, _)
SeqsUpTo(S, n) ==
    IF n = 0 THEN {<<>>}
    ELSE LET shorter == SeqsUpTo(S, n - 1)
         IN shorter \cup {Append(q, x) : q \in shorter, x \in S}

Block(n, ts) == [t |-> "obj", number |-> Num(n), timestamp |-> Num(ts)]

NoRes == [hasData |-> FALSE, logs |-> <<>>, blocks |-> Undef, nextBlock |-> Undef]

\* res.data.blocks of a batch: the block of the logs, absent, another block.
BlocksOfLogs == Arr(<<Block(StartBlock, 1718000000)>>)

BlocksOther == Arr(<<Block(StartBlock + 1, 1718000002)>>)

ServiceBlocks == {BlocksOfLogs, Undef, BlocksOther}

\* The blocks and the next-block hint of a batch, by the stream's position:
\* the block of the logs with a hint ahead of the position; no blocks and no
\* hint; another block only, with a zero hint.
ServiceShapes(pos) ==
    { [blocks |-> BlocksOfLogs, nextBlock |-> Num(pos + 1)],
      [blocks |-> Undef, nextBlock |-> Undef],
      [blocks |-> BlocksOther, nextBlock |-> Num(0)] }

\* What stream.recv() may resolve to, other than null.
ServiceBatches(q, pos, left) ==
    { [hasData |-> TRUE, logs |-> ls, blocks |-> sh.blocks, nextBlock |-> sh.nextBlock] :
        ls \in SeqsUpTo(ServiceLogs(q), left), sh \in ServiceShapes(pos) }
    \cup { [NoRes EXCEPT !.nextBlock = Num(pos + 1)] }

\* CSV_HEADERS of each script.
CSV_HEADERS(scr) ==
    IF scr = "transfers"
    THEN [kind |-> "header",
          fields |-> <<"block_number", "timestamp", "tx_hash", "from_address",
                       "to_address", "amount">>]
    ELSE [kind |-> "header",
          fields |-> <<"block_number", "timestamp", "tx_hash", "sender_address",
                       "to_address", "amount0", "amount1", "event_type">>]

Line(row) == [kind |-> "row", fields |-> row]

-----------------------------------------------------------------------------
(* The scripts. *)

\* processEvents("mint", MINT_TOPIC0) then processEvents("burn", BURN_TOPIC0).
EventType(p) == IF p = 1 THEN StrMint ELSE StrBurn

PassTopic0(scr, p) ==
    IF scr = "transfers" THEN TRANSFER_TOPIC0
    ELSE IF p = 1 THEN MINT_TOPIC0 ELSE BURN_TOPIC0

createQuery(eventTopic0) == [fromBlock |-> StartBlock, topic0 |-> eventTopic0]

\* Mutant: the passes share one query object.
PassQueryShared(scr, p, q) == q

\* The query a pass streams with: the transfer script's module-level query,
\* a fresh createQuery(topic0) in processEvents.
PassQuery(scr, p, q) == IF scr = "transfers" THEN q ELSE createQuery(PassTopic0(scr, p))

\* Passes of a script.
LastPass(scr) == IF scr = "transfers" THEN 1 ELSE 2

\* Mutant: the cursor takes every numeric hint, zero included.
NextFromBlockUnguarded(fromBlock, nextBlock) ==
    IF nextBlock.t = "num" THEN nextBlock.v ELSE fromBlock

\* if (res.nextBlock) query.fromBlock = res.nextBlock
NextFromBlock(fromBlock, nextBlock) ==
    IF Truthy(nextBlock) THEN nextBlock.v ELSE fromBlock

IdleLog == GoodLog(TRANSFER_TOPIC0)

NoRow == [state |-> "none"]

InitPipe(scr) ==
    /\ script = scr
    /\ pc = "init"
    /\ pass = 1
    /\ query = createQuery(PassTopic0(scr, 1))
    /\ totalEvents = 0
    /\ res = NoRes
    /\ idx = 1
    /\ file = <<>>
    /\ exitCode = -1
    /\ srvPos = StartBlock
    /\ opens = <<>>
    /\ recvs = <<>>
    /\ nThrown = 0
    /\ nSinkErr = 0

Init ==
    /\ \E scr \in {"transfers", "mintburn"} : InitPipe(scr)
    /\ dlog = IdleLog
    /\ dscript = "none"
    /\ drow = NoRow

\* fs.writeFileSync(CSV_FILENAME, CSV_HEADERS)
WriteHeader ==
    /\ pc = "init"
    /\ file' = <<CSV_HEADERS(script)>>
    /\ pc' = "open"
    /\ UNCHANGED <<script, pass, query, totalEvents, res, idx, exitCode, srvPos,
                   opens, recvs, nThrown, nSinkErr>>

\* Mutant: every pass rewrites the file with the header.
OpenStreamRewritesHeader ==
    /\ pc = "open"
    /\ query' = PassQuery(script, pass, query)
    /\ totalEvents' = 0
    /\ srvPos' = PassQuery(script, pass, query).fromBlock
    /\ opens' = Append(opens, PassQuery(script, pass, query))
    /\ file' = <<CSV_HEADERS(script)>>
    /\ pc' = "recv"
    /\ UNCHANGED <<script, pass, res, idx, exitCode, recvs, nThrown, nSinkErr>>

\* The head of a pass: the query, totalEvents = 0, client.stream(query, {}).
OpenStream ==
    /\ pc = "open"
    /\ query' = PassQuery(script, pass, query)
    /\ totalEvents' = 0
    /\ srvPos' = PassQuery(script, pass, query).fromBlock
    /\ opens' = Append(opens, PassQuery(script, pass, query))
    /\ pc' = "recv"
    /\ UNCHANGED <<script, pass, res, idx, file, exitCode, recvs, nThrown, nSinkErr>>

BatchesServed(rs) == Len(SelectSeq(rs, LAMBDA r : r.kind = "batch"))

RECURSIVE LogsServed(_)
LogsServed(rs) == IF rs = <<>> THEN 0 ELSE Head(rs).n + LogsServed(Tail(rs))

\* stream.recv() resolves to a batch.
RecvBatch ==
    /\ pc = "recv"
    /\ BatchesServed(recvs) < MaxBatches
    /\ \E b \in ServiceBatches(query, srvPos, MaxLogs - LogsServed(recvs)) :
         /\ res' = b
         /\ totalEvents' = totalEvents + Len(b.logs)
         /\ srvPos' = IF Truthy(b.nextBlock) THEN b.nextBlock.v ELSE srvPos
         /\ recvs' = Append(recvs, [kind |-> "batch", n |-> Len(b.logs), pass |-> pass,
                                   hint |-> b.nextBlock])
    /\ idx' = 1
    /\ pc' = "logs"
    /\ UNCHANGED <<script, pass, query, file, exitCode, opens, nThrown, nSinkErr>>

\* Mutant: no break, the loop calls stream.recv() again.
AfterBreakContinue(scr, p) == "recv"

\* Where control goes after the break: the end of main, or the next pass.
AfterBreak(scr, p) == IF p = LastPass(scr) THEN "done" ELSE "open"

\* stream.recv() resolves to null: break.
RecvNull ==
    /\ pc = "recv"
    /\ recvs' = Append(recvs, [kind |-> "null", n |-> 0, pass |-> pass, hint |-> Undef])
    /\ pc' = AfterBreak(script, pass)
    /\ pass' = IF AfterBreak(script, pass) = "open" THEN pass + 1 ELSE pass
    /\ exitCode' = IF AfterBreak(script, pass) = "done" THEN 0 ELSE exitCode
    /\ UNCHANGED <<script, query, totalEvents, res, idx, file, srvPos, opens,
                   nThrown, nSinkErr>>

\* Mutant: the rejection is swallowed and the fetch retried.
AfterRejectRetry(scr, p) == "recv"

\* Where control goes when stream.recv() rejects: main().catch.
AfterReject(scr, p) == "failed"

\* stream.recv() rejects: main().catch logs and calls process.exit(1).
RecvThrow ==
    /\ pc = "recv"
    /\ recvs' = Append(recvs, [kind |-> "throw", n |-> 0, pass |-> pass, hint |-> Undef])
    /\ pc' = AfterReject(script, pass)
    /\ exitCode' = IF AfterReject(script, pass) = "failed" THEN 1 ELSE exitCode
    /\ UNCHANGED <<script, pass, query, totalEvents, res, idx, file, srvPos, opens,
                   nThrown, nSinkErr>>

InLoop == pc = "logs" /\ res.hasData /\ idx <= Len(res.logs)

\* The decoder is a pure function of the script, the log, the batch's blocks
\* and the pass; its values on the logs of the chain are tabulated once.
CsvRows ==
    { [key |-> a, val |-> CsvRow(a[1], a[2], a[3], EventType(a[4]))] :
        a \in {"transfers", "mintburn"} \X ChainLogs \X ServiceBlocks \X {1, 2} }

CurrentRow ==
    (CHOOSE e \in CsvRows : e.key = <<script, res.logs[idx], res.blocks, pass>>).val

\* One iteration whose decoding throws: the catch logs it, the loop goes on.
DecodeThrows ==
    /\ InLoop
    /\ CurrentRow.threw
    /\ nThrown' = nThrown + 1
    /\ idx' = idx + 1
    /\ UNCHANGED <<script, pc, pass, query, totalEvents, res, file, exitCode,
                   srvPos, opens, recvs, nSinkErr>>

\* One iteration that appends its row.
AppendRow ==
    /\ InLoop
    /\ ~CurrentRow.threw
    /\ file' = Append(file, Line(CurrentRow.row))
    /\ idx' = idx + 1
    /\ UNCHANGED <<script, pc, pass, query, totalEvents, res, exitCode, srvPos,
                   opens, recvs, nThrown, nSinkErr>>

\* One iteration whose fs.appendFileSync throws: the same catch takes it.
AppendFails ==
    /\ InLoop
    /\ ~CurrentRow.threw
    /\ nSinkErr' = nSinkErr + 1
    /\ idx' = idx + 1
    /\ UNCHANGED <<script, pc, pass, query, totalEvents, res, file, exitCode,
                   srvPos, opens, recvs, nThrown>>

\* After the for loop: the cursor update, then back to stream.recv().
AdvanceCursor ==
    /\ pc = "logs"
    /\ ~InLoop
    /\ query' = [query EXCEPT !.fromBlock = NextFromBlock(query.fromBlock, res.nextBlock)]
    /\ res' = NoRes
    /\ idx' = 1
    /\ pc' = "recv"
    /\ UNCHANGED <<script, pass, totalEvents, file, exitCode, srvPos,
                   opens, recvs, nThrown, nSinkErr>>

Next ==
    \/ (WriteHeader /\ UNCHANGED decVars)
    \/ (OpenStream /\ UNCHANGED decVars)
    \/ (RecvBatch /\ UNCHANGED decVars)
    \/ (RecvNull /\ UNCHANGED decVars)
    \/ (RecvThrow /\ UNCHANGED decVars)
    \/ (DecodeThrows /\ UNCHANGED decVars)
    \/ (AppendRow /\ UNCHANGED decVars)
    \/ (AppendFails /\ UNCHANGED decVars)
    \/ (AdvanceCursor /\ UNCHANGED decVars)

Spec == Init /\ [][Next]_vars

\* The event loop runs every continuation that is ready.
LiveSpec == Spec /\ WF_vars(Next)

-----------------------------------------------------------------------------
(* The decoder on its own: one log, drawn from the shapes a log record can *)
(* take, decoded once by the script chosen with it.                        *)

WordMax == Rep("f", WordHexLen)

Word2p64 == Pad64(<<"1">> \o Rep("0", 16))

\* A word holding a character that is no hex digit.
WordBad == Pad64(<<"3", "g">>)

Words == {Word50, Word75, WordMax, Word2p64, WordBad}

Prefix0x == <<"0", "x">>

DecodeTopic1 ==
    { Undef, Str(<<>>), Str(TopicA), Str(Pad64(AddrB)),
      Str(<<"0", "x", "1", "2">>), Num(7) }

DecodeTopic2 == { Undef, Str(TopicB), Num(7) }

DecodeTopics ==
    { Undef,
      Str(<<"t">>),
      Arr(<<Str(MINT_TOPIC0)>>),
      Arr(<<Str(MINT_TOPIC0), Str(TopicB)>>),
      Arr(<<Str(MINT_TOPIC0), Str(TopicB), Str(TopicA)>>),
      Arr(<<Str(MINT_TOPIC0), Undef, Str(TopicA)>>) }

DecodeData ==
    { Undef, Str(<<>>), Num(5), Str(Prefix0x),
      Str(Prefix0x \o Pad64(<<"6", "4">>)),
      Str(Word50 \o Word75),
      Str(Prefix0x \o Word50 \o SubSeq(Word75, 1, WordHexLen - 1)),
      Str(Prefix0x \o Word50 \o SubSeq(Word75, 1, WordHexLen - 2)),
      Str(Prefix0x \o Word50 \o Word75 \o Word2p64) }
    \cup { Str(Prefix0x \o w0 \o w1) : w0 \in Words, w1 \in Words }

DecodeLogs ==
    { [blockNumber |-> Num(StartBlock), transactionHash |-> Str(TxHash),
       topic0 |-> Str(MINT_TOPIC0), topic1 |-> t1, topic2 |-> t2,
       topics |-> ts, data |-> d] :
        t1 \in DecodeTopic1, t2 \in DecodeTopic2, ts \in DecodeTopics,
        d \in DecodeData }

DecodeBlocks == BlocksOfLogs

InitDecode ==
    /\ InitPipe("transfers")
    /\ dlog \in DecodeLogs
    /\ dscript \in {"transfers", "mintburn"}
    /\ drow = NoRow

Decoded(r) == [state |-> "done", threw |-> r.threw, row |-> r.row]

\* The transfer script's try block on dlog.
DecodeTransfer ==
    /\ dscript = "transfers"
    /\ drow = NoRow
    /\ drow' = Decoded(TransferRow(dlog, DecodeBlocks))
    /\ UNCHANGED <<dlog, dscript>>

\* The mint/burn script's try block on dlog, in either pass.
DecodeMintBurn ==
    /\ dscript = "mintburn"
    /\ drow = NoRow
    /\ \E p \in {1, 2} : drow' = Decoded(MintBurnRow(dlog, DecodeBlocks, EventType(p)))
    /\ UNCHANGED <<dlog, dscript>>

NextDecode ==
    \/ (DecodeTransfer /\ UNCHANGED pipeVars)
    \/ (DecodeMintBurn /\ UNCHANGED pipeVars)

DecodeSpec == InitDecode /\ [][NextDecode]_vars

-----------------------------------------------------------------------------
(* Properties of the decoder (checked under DecodeSpec). *)

DecodedRow == drow.state = "done" /\ ~drow.threw

\* The last n characters of s (all of s when it is shorter), by position.
LastChars(s, n) ==
    LET m == IF Len(s) < n THEN Len(s) ELSE n
    IN [k \in 1..m |-> s[Len(s) - m + k]]

IsString(x) == x.t = "str"

\* The named slot holds a topic.
SlotPresent(slot) == IsString(slot) /\ slot.v # <<>>

\* A topics array long enough to hold index k is present.
ArrayHolds(topics, k) == topics.t = "arr" /\ Len(topics.v) >= k + 1

\* The value an address field must have for a log that yielded a row.
AddressRule(slot, topics, k, addr) ==
    IF SlotPresent(slot) THEN addr = Prefix0x \o LastChars(slot.v, 40)
    ELSE IF ArrayHolds(topics, k)
         THEN addr = Prefix0x \o LastChars(topics.v[k + 1].v, 40)
         ELSE addr = StrUnknown

\* The field has a source that is not a string: its decoding throws.
SourceNotString(slot, topics, k) ==
    \/ (Truthy(slot) /\ ~IsString(slot))
    \/ (~Truthy(slot) /\ ArrayHolds(topics, k) /\ ~IsString(topics.v[k + 1]))

\* C8: in every row the decoder yields, each address field is "0x" and the
\* last 40 characters of the named slot when the slot is present, else "0x"
\* and the last 40 characters of topics[1] / topics[2] when the array holds
\* that index, else "unknown"; and a row is yielded whenever no field's
\* source is a non-string, in particular when both fields are "unknown".
C8_AddressExtraction ==
    /\ DecodedRow =>
         /\ AddressRule(dlog.topic1, dlog.topics, 1, drow.row[4])
         /\ AddressRule(dlog.topic2, dlog.topics, 2, drow.row[5])
    /\ (drow.state = "done"
          /\ ~SourceNotString(dlog.topic1, dlog.topics, 1)
          /\ ~SourceNotString(dlog.topic2, dlog.topics, 2)) => ~drow.threw

\* C8 witness: topic1 arrives in its slot and, differently, in the array;
\* topic2 only in the array; the slot wins and the array fills the other.
C8_Witness ==
    /\ DecodedRow
    /\ dlog.topic1 = Str(TopicA)
    /\ dlog.topic2 = Undef
    /\ dlog.topics = Arr(<<Str(MINT_TOPIC0), Str(TopicB), Str(TopicA)>>)
    /\ drow.row[4] = Prefix0x \o AddrA
    /\ drow.row[5] = Prefix0x \o AddrA

\* Decimal strings of the test words.
ExpectedDecimal(w) ==
    CASE w = Word50 -> <<"5", "0">>
      [] w = Word75 -> <<"7", "5">>
      [] w = Word2p64 ->
        <<"1","8","4","4","6","7","4","4","0","7","3","7","0","9","5","5",
          "1","6","1","6">>
      [] w = WordMax ->
        <<"1","1","5","7","9","2","0","8","9","2","3","7","3","1","6","1",
          "9","5","4","2","3","5","7","0","9","8","5","0","0","8","6","8",
          "7","9","0","7","8","5","3","2","6","9","9","8","4","6","6","5",
          "6","4","0","5","6","4","0","3","9","4","5","7","5","8","4","0",
          "0","7","9","1","3","1","2","9","6","3","9","9","3","5">>

\* The payload after an optional 0x prefix.
Payload(s) ==
    IF Len(s) >= 2 /\ s[1] = "0" /\ s[2] = "x"
    THEN [k \in 1..(Len(s) - 2) |-> s[k + 2]]
    ELSE s

WordAt(s, k) == [j \in 1..64 |-> s[64 * k + j]]

HexChars ==
    {"0", "1", "2", "3", "4", "5", "6", "7", "8", "9",
     "a", "b", "c", "d", "e", "f", "A", "B", "C", "D", "E", "F"}

AllHex(w) == \A j \in 1..Len(w) : w[j] \in HexChars

\* C9: in every row of the mint/burn decoder, a string payload of at least
\* 128 hex characters (after an optional 0x) whose first two words parse
\* gives amount0 and amount1 as the decimal strings of those words; every
\* other payload gives "0" and "0".
C9_DualAmount ==
    (DecodedRow /\ dscript = "mintburn") =>
        LET d == dlog.data
            decodes == /\ IsString(d)
                       /\ Len(Payload(d.v)) >= 128
                       /\ AllHex(WordAt(Payload(d.v), 0))
                       /\ AllHex(WordAt(Payload(d.v), 1))
        IN IF decodes
           THEN /\ drow.row[6] = ExpectedDecimal(WordAt(Payload(d.v), 0))
                /\ drow.row[7] = ExpectedDecimal(WordAt(Payload(d.v), 1))
           ELSE /\ drow.row[6] = <<"0">>
                /\ drow.row[7] = <<"0">>

\* C9 witness: the words 50 and 75 decoded.
C9_Witness ==
    /\ DecodedRow
    /\ dscript = "mintburn"
    /\ dlog.data = Str(Prefix0x \o Word50 \o Word75)
    /\ drow.row[6] = <<"5", "0">>
    /\ drow.row[7] = <<"7", "5">>

-----------------------------------------------------------------------------
(* Properties of the run (checked under Spec and LiveSpec). *)

Last(q) == q[Len(q)]

\* Logs of the batch in hand that the for loop has not reached yet.
Pending == IF pc = "logs" /\ res.hasData THEN Len(res.logs) - idx + 1 ELSE 0

\* Data lines of the file.
DataLines == IF file = <<>> THEN 0 ELSE Len(file) - 1

\* C1 (as claimed): when the for loop over a batch has ended, the rows
\* appended so far are the logs received so far (all of an accepted topic0)
\* minus those whose decoding raised an exception.
C1_RowsPerBatch ==
    (pc = "logs" /\ ~InLoop) =>
        /\ \A k \in 1..Len(res.logs) : res.logs[k].topic0 = Str(query.topic0)
        /\ DataLines = LogsServed(recvs) - nThrown

\* C3 (as claimed): once an appendFileSync call has thrown, the run has
\* ended with a non-zero exit status.
C3_SinkFailureFatal == nSinkErr > 0 => (pc = "failed" /\ exitCode = 1)

\* C2: a rejected stream.recv() is the last call made on the service and
\* ends the run with exit status 1; the file then holds the header and one
\* row for every log of the earlier batches that was appended (every log
\* received, less those that raised and those whose append failed).
C2_FetchErrorFatal ==
    \A k \in 1..Len(recvs) :
        recvs[k].kind = "throw" =>
            /\ k = Len(recvs)
            /\ pc = "failed"
            /\ exitCode = 1
            /\ Len(opens) = recvs[k].pass
            /\ Pending = 0
            /\ file[1] = CSV_HEADERS(script)
            /\ DataLines = LogsServed(recvs) - nThrown - nSinkErr

\* C2 witness: the second fetch throws after a first batch of two logs,
\* both appended.
C2_Witness ==
    /\ pc = "failed"
    /\ Len(recvs) = 2
    /\ recvs[1].kind = "batch" /\ recvs[1].n = 2
    /\ recvs[2].kind = "throw"
    /\ Len(file) = 3
    /\ exitCode = 1

\* The cursor a pass must hold between batches: the last present, non-zero
\* hint of the pass, the start block when there was none.
CursorAfter(rs, p) ==
    LET ks == {k \in 1..Len(rs) :
                  rs[k].pass = p /\ rs[k].kind = "batch" /\ rs[k].hint.t = "num"
                  /\ rs[k].hint.v # 0}
    IN IF ks = {} THEN StartBlock
       ELSE rs[CHOOSE k \in ks : \A j \in ks : j <= k].hint.v

\* C4 (as claimed): after a batch is processed the cursor equals that
\* batch's hint, whatever the hint.
C4_CursorEqualsHint ==
    (pc = "recv" /\ recvs # <<>> /\ Last(recvs).kind = "batch") =>
        /\ Last(recvs).hint.t = "num"
        /\ query.fromBlock = Last(recvs).hint.v

\* C4 (amended): within a pass the cursor never decreases; after a batch is
\* processed it equals that batch's hint when the hint is present and
\* non-zero, and is left as it was when the hint is missing or zero.
C4_CursorMonotone ==
    /\ [](pc = "recv" => query.fromBlock = CursorAfter(recvs, pass))
    /\ [][opens' = opens => query'.fromBlock >= query.fromBlock]_vars

\* C4 witness: two batches of one pass, the first with a hint, the second
\* without; the cursor holds the first hint.
C4_Witness ==
    /\ pc = "recv"
    /\ Len(recvs) = 2
    /\ recvs[1].kind = "batch" /\ recvs[1].hint = Num(StartBlock + 1)
    /\ recvs[2].kind = "batch" /\ ~Truthy(recvs[2].hint)
    /\ recvs[2].pass = recvs[1].pass
    /\ query.fromBlock = StartBlock + 1

\* C5: the file is empty and no stream is open before the header is
\* written; from then on the header is the first line and the only header
\* line, and the file only grows by appended lines (no pass rewrites the
\* header or truncates earlier rows).
C5_HeaderOnce ==
    /\ [](IF pc = "init" THEN file = <<>> /\ opens = <<>>
          ELSE /\ file # <<>>
               /\ file[1] = CSV_HEADERS(script)
               /\ \A k \in 2..Len(file) : file[k].kind = "row")
    /\ [][pc # "init" =>
            /\ Len(file') >= Len(file)
            /\ SubSeq(file', 1, Len(file)) = file]_vars

\* C5 witness: the burn pass has appended a row below a mint row and the
\* header.
C5_Witness ==
    /\ script = "mintburn"
    /\ pass = 2
    /\ Len(file) = 3
    /\ file[1] = CSV_HEADERS(script)
    /\ file[2].fields[8] = StrMint
    /\ file[3].fields[8] = StrBurn

Terminated == pc \in {"done", "failed"}

\* C6 (as claimed): once stream.recv() has returned null no further fetch
\* is made and the run does not end with a non-zero status.
C6_NullEndsRun ==
    \A k \in 1..Len(recvs) :
        recvs[k].kind = "null" => (k = Len(recvs) /\ exitCode # 1)

\* C6 (amended): a null ends the pass: no further fetch is made in that
\* pass; a null in the script's last pass ends the run with exit status 0
\* and nothing follows it.  A run that ends normally holds the header and
\* one data line per log received, less those that raised and those whose
\* append failed: 1 header line and 2 data lines for batches of 2 logs and
\* 0 logs followed by null when none did.  Every run terminates.
C6_NullEndsPass ==
    /\ [](\A k \in 1..Len(recvs) :
            recvs[k].kind = "null" =>
                /\ \A j \in (k + 1)..Len(recvs) : recvs[j].pass > recvs[k].pass
                /\ recvs[k].pass = LastPass(script) =>
                     (k = Len(recvs) /\ pc = "done" /\ exitCode = 0))
    /\ [](pc = "done" =>
            /\ exitCode = 0
            /\ Last(recvs).kind = "null"
            /\ Last(recvs).pass = LastPass(script)
            /\ DataLines = LogsServed(recvs) - nThrown - nSinkErr)
    /\ <>Terminated

\* C6 witness: the transfer script after 2 logs, 0 logs, null.
C6_Witness ==
    /\ script = "transfers"
    /\ pc = "done"
    /\ exitCode = 0
    /\ Len(recvs) = 3
    /\ recvs[1].kind = "batch" /\ recvs[1].n = 2
    /\ recvs[2].kind = "batch" /\ recvs[2].n = 0
    /\ recvs[3].kind = "null"
    /\ Len(file) = 3
    /\ file[1].kind = "header" /\ file[2].kind = "row" /\ file[3].kind = "row"

\* The blocks of the batch in hand whose number is the log's block number.
MatchingBlocks(blocks, log) ==
    IF blocks.t # "arr" THEN {}
    ELSE {k \in 1..Len(blocks.v) :
              /\ log.blockNumber.t = "num"
              /\ blocks.v[k].number.t = "num"
              /\ blocks.v[k].number.v = log.blockNumber.v}

\* C7: every appended row carries its log's block number; its timestamp is
\* that of a block of the same batch with the log's block number, and is
\* empty when the batch holds no such block.
C7_TimestampSameBatch ==
    [][(pc = "logs" /\ Len(file') > Len(file)) =>
          LET row == Last(file').fields
              log == res.logs[idx]
              ks == MatchingBlocks(res.blocks, log)
          IN /\ row[1] = DecimalDigits(log.blockNumber.v)
             /\ row[2] # <<>> =>
                  \E k \in ks : row[2] = DecimalDigits(res.blocks.v[k].timestamp.v)
             /\ ks = {} => row[2] = <<>>]_vars

\* C7 witness: a row with a timestamp, then, from a later batch that lacks
\* the block, a row of the same block number with an empty timestamp.
C7_Witness ==
    /\ Len(file) = 3
    /\ Len(recvs) = 2
    /\ recvs[1].n = 1 /\ recvs[2].n = 1
    /\ file[2].fields[1] = file[3].fields[1]
    /\ file[2].fields[2] # <<>>
    /\ file[3].fields[2] = <<>>

RowsOfType(et) == {k \in 2..Len(file) : file[k].fields[8] = et}

\* C10: in the mint/burn script the mint stream is opened first and the
\* burn stream only after the mint pass received null (never after a fetch
\* error), each with a fresh query at the start block and its own topic0;
\* totalEvents counts the logs of the current pass only; every row appended
\* carries the event_type of the pass in progress, so mint rows precede
\* burn rows.
C10_SequentialPasses ==
    /\ [](script = "mintburn" =>
            /\ Len(opens) <= 2
            /\ Len(opens) >= 1 => opens[1] = createQuery(MINT_TOPIC0)
            /\ Len(opens) = 2 =>
                 /\ opens[2] = createQuery(BURN_TOPIC0)
                 /\ \E k \in 1..Len(recvs) : recvs[k].kind = "null" /\ recvs[k].pass = 1
            /\ Len(opens) = IF pc \in {"init", "open"} THEN pass - 1 ELSE pass
            /\ (\E k \in 1..Len(recvs) : recvs[k].kind = "throw" /\ recvs[k].pass = 1)
                 => (Len(opens) = 1 /\ pc = "failed")
            /\ pc \in {"recv", "logs"} =>
                 totalEvents = LogsServed(SelectSeq(recvs, LAMBDA r : r.pass = pass))
            /\ pass = 1 => RowsOfType(StrBurn) = {}
            /\ \A i \in RowsOfType(StrBurn), j \in RowsOfType(StrMint) : j < i)
    /\ [][(script = "mintburn" /\ Len(file') > Len(file) /\ pc # "init") =>
            Last(file').fields[8] = EventType(pass)]_vars

\* C10 witness: a finished run with one mint row and then one burn row.
C10_Witness ==
    /\ script = "mintburn"
    /\ pc = "done"
    /\ Len(opens) = 2
    /\ Len(file) = 3
    /\ file[2].fields[8] = StrMint
    /\ file[3].fields[8] = StrBurn

====
